---- MODULE Spec2Model ----
(***************************************************************************)
(* State-machine model of src/agno_agent.py: the FastAPI application       *)
(* "XP B3 Parser" with its api_key_guard middleware, the helper            *)
(* extract_text_from_pdf, the POST /predict endpoint and the GET / route.  *)
(*                                                                         *)
(* Strings that the program indexes or slices (URL paths, page texts, the  *)
(* prompt) are sequences of one-character strings.  Strings that are only  *)
(* compared or passed through (header values, exception messages, the      *)
(* completion text) are TLA+ strings.                                      *)
(*                                                                         *)
(* Scheduling.  Both handlers are coroutines on one event loop.  The only  *)
(* suspension points of a request are `await call_next(request)` (line 46) *)
(* and `await file.read()` (line 71); extract_text_from_pdf and            *)
(* client.chat.completions.create are synchronous calls, so the rest of    *)
(* predict runs without yielding to another request.  Each action below is *)
(* the code between two suspension points.  A field of a request is drawn  *)
(* at the step that first reads it (the path on arrival, the header in the *)
(* guard, the method in the router, the body at file.read()).              *)
(***************************************************************************)
EXTENDS Integers, Sequences, FiniteSets, TLC

VARIABLES
    API_KEY,         \* line 14: os.getenv("API_KEY"), None when unset
    OPENAI_API_KEY,  \* line 13: os.getenv("OPENAI_API_KEY")
    client,          \* line 19: the shared OpenAI client handle
    pc,              \* per connection slot: position of its request
    req,             \* per connection slot: the request fields read so far
    tmpfiles,        \* number of files tempfile has created and nobody removed
    extractFailed,   \* TRUE once some request ended in a PdfReader exception
    last             \* the request the latest step answered, if it answered one

config == <<API_KEY, OPENAI_API_KEY, client>>
vars == <<API_KEY, OPENAI_API_KEY, client, pc, req, tmpfiles, extractFailed, last>>

(***************************************************************************)
(* Bounds of the model.                                                    *)
(***************************************************************************)
NumSlots == 2      \* connections that can be in flight together
MaxPages == 2      \* pages of an uploaded PDF
MaxTmpFiles == 2   \* the temp-file counter stops the model here
TextLimit == 2     \* scaled stand-in for the 6000 of text[:6000] (line 90)

Slots == 1..NumSlots

(***************************************************************************)
(* Values.                                                                 *)
(***************************************************************************)
None == "None"                     \* Python's None, distinct from every str below
Falsy(v) == v \in {None, ""}       \* `not v` for v: Optional[str]

Whitespace == {" ", "\n", "\t"}    \* what str.strip() removes

ROOT == <<"/">>
PREDICT == <<"/", "p", "r", "e", "d", "i", "c", "t">>
PREDICTIONS == PREDICT \o <<"i", "o", "n", "s">>
ELSEWHERE == <<"/", "x">>
Paths == {ROOT, PREDICT, PREDICTIONS, ELSEWHERE}

Methods == {"GET", "POST"}
HeaderValues == {None, "", "k1", "k2"}     \* request.headers.get("X-API-Key")
SecretValues == {None, "", "k1"}           \* os.getenv("API_KEY")

\* page.extract_text() returns a str or None
PageNone == [isText |-> FALSE, chars |-> <<>>]
PageStr(s) == [isText |-> TRUE, chars |-> s]
PageResults == {PageNone, PageStr(<<" ">>), PageStr(<<"a", "b">>)}

SeqsUpTo(S, n) == UNION {[1..k -> S] : k \in 0..n}

\* The request body: bytes that PdfReader accepts (its pages), or rejects (err).
Pdf(pages) == [valid |-> TRUE, pages |-> pages, err |-> ""]
Corrupt(msg) == [valid |-> FALSE, pages |-> <<>>, err |-> msg]
NoUpload == [valid |-> FALSE, pages |-> <<>>, err |-> "unread"]
Uploads == {Pdf(p) : p \in SeqsUpTo(PageResults, MaxPages)}
           \cup {Corrupt("EOF marker not found"), Corrupt("")}

\* What client.chat.completions.create does: raises, or returns choices.
Raised(msg) == [raised |-> TRUE, msg |-> msg, choices |-> <<>>]
Returned(choices) == [raised |-> FALSE, msg |-> "", choices |-> choices]
NoReply == [raised |-> FALSE, msg |-> "uncalled", choices |-> <<>>]
Replies == {Raised("Connection error."), Returned(<<>>), Returned(<<"{json}">>),
            Returned(<<"free text", "{json}">>), Returned(<<None>>)}

(***************************************************************************)
(* Responses.                                                              *)
(***************************************************************************)
JSONResponse(body, status) == [status |-> status, body |-> body]
Unauthorized == JSONResponse([detail |-> "Unauthorized"], 401)
NotFound == JSONResponse([detail |-> "Not Found"], 404)
MethodNotAllowed == JSONResponse([detail |-> "Method Not Allowed"], 405)
NoResponse == JSONResponse([none |-> ""], 0)

(***************************************************************************)
(* api_key_guard (lines 40-46).                                            *)
(***************************************************************************)
StartsWith(s, prefix) ==
    Len(s) >= Len(prefix) /\ SubSeq(s, 1, Len(prefix)) = prefix

\* the guard matching on "/" instead of "/predict"
IsProtectedEverywhere(path) == StartsWith(path, ROOT)

\* line 42: request.url.path.startswith("/predict")
IsProtected(path) == StartsWith(path, PREDICT)

\* line 44 without `not API_KEY`
AuthorizedWithoutSecretCheck(key, secret) == key = secret

\* line 44, negated: the guard lets the request through
Authorized(key, secret) == ~(Falsy(secret) \/ key # secret)

(***************************************************************************)
(* extract_text_from_pdf (lines 51-59).                                    *)
(***************************************************************************)
\* line 58: page.extract_text() or ""
OrEmpty(page) == IF page.isText /\ page.chars # <<>> THEN page.chars ELSE <<>>

\* lines 56-58: text = ""; for page in reader.pages: text += ...
RECURSIVE ConcatPages(_)
ConcatPages(pages) ==
    IF pages = <<>> THEN <<>>
    ELSE OrEmpty(Head(pages)) \o ConcatPages(Tail(pages))

RECURSIVE lstrip(_)
lstrip(s) ==
    IF s # <<>> /\ Head(s) \in Whitespace THEN lstrip(Tail(s)) ELSE s

RECURSIVE rstrip(_)
rstrip(s) ==
    IF s # <<>> /\ s[Len(s)] \in Whitespace
    THEN rstrip(SubSeq(s, 1, Len(s) - 1)) ELSE s

\* line 59 returning text without .strip()
StripNothing(s) == s

\* line 59: text.strip()
strip(s) == rstrip(lstrip(s))

\* The outcome of the call: PdfReader(tmp.name) raises (line 55), or the
\* stripped concatenation is returned (line 59).
extract_text_from_pdf(upload) ==
    IF upload.valid
    THEN [raised |-> FALSE, msg |-> "", text |-> strip(ConcatPages(upload.pages))]
    ELSE [raised |-> TRUE, msg |-> upload.err, text |-> <<>>]

\* line 52: NamedTemporaryFile(delete=False) creates one file; the with
\* block closes it on exit and nothing unlinks it.
TempFilesAfterExtract(n) == n + 1

(***************************************************************************)
(* predict (lines 64-106).                                                 *)
(***************************************************************************)
PromptPrefix == <<"Extraia do texto abaixo ... Texto extraido:">>
PromptSuffix == <<"  # limita para evitar estouro de tokens">>

\* line 90 embedding {text} without the slice
TruncateNothing(text) == text

\* line 90: text[:6000]
Truncate(text) ==
    IF Len(text) > TextLimit THEN SubSeq(text, 1, TextLimit) ELSE text

\* lines 78-91: the f-string
Prompt(text) == PromptPrefix \o Truncate(text) \o PromptSuffix

SystemContent == "Voce e um extrator preciso de informacoes de PDFs da XP/B3."

\* lines 93-100: the arguments of client.chat.completions.create
CompletionCall(prompt) ==
    [model |-> "gpt-4o-mini",
     temperature |-> 0,
     messages |-> <<[role |-> "system", content |-> SystemContent],
                    [role |-> "user", content |-> prompt]>>]

\* lines 93-100 wrapped in a retry-once-on-failure loop
CallsMadeWithRetry(prompt, reply) ==
    IF reply.raised
    THEN <<CompletionCall(prompt), CompletionCall(prompt)>>
    ELSE <<CompletionCall(prompt)>>

\* lines 93-100: the calls the handler issues for one prompt (no loop, no retry)
CallsMade(prompt, reply) == <<CompletionCall(prompt)>>

\* lines 93-100 with the handle keeping the prompt of its latest call
ClientKeepsPrompt(c, call) ==
    [api_key |-> c.api_key, prompt |-> call.messages[2].content]

\* lines 93-100: the call leaves the shared client handle as it was
ClientAfterCall(c, call) == c

\* line 102 reading choices[-1]
LastChoice(choices) == choices[Len(choices)]

\* line 102: completion.choices[0].message.content
FirstChoice(choices) == choices[1]

\* lines 105-106 missing: the exception reaches the framework
OnExceptionUncaught(msg) == JSONResponse([detail |-> "Internal Server Error"], 500)

\* lines 105-106: except Exception as e: return {"error": str(e)}
OnException(msg) == JSONResponse([error |-> msg], 200)

NoTextMessage == "Nenhum texto encontrado no PDF."
IndexErrorMessage == "list index out of range"

\* lines 93-106 once the call has been issued
ReplyResponse(reply) ==
    IF reply.raised THEN OnException(reply.msg)
    ELSE IF reply.choices = <<>> THEN OnException(IndexErrorMessage)
    ELSE JSONResponse([resultado |-> FirstChoice(reply.choices)], 200)

\* lines 70-106 after file.read() has returned `upload`; `reply` is what the
\* completion service does if it is called.
predict(upload, reply) ==
    LET ex == extract_text_from_pdf(upload) IN
    IF ex.raised
    THEN [resp |-> OnException(ex.msg), text |-> <<>>, calls |-> <<>>,
          reply |-> NoReply]
    ELSE IF ex.text = <<>>
    THEN [resp |-> JSONResponse([error |-> NoTextMessage], 200),
          text |-> ex.text, calls |-> <<>>, reply |-> NoReply]
    ELSE [resp |-> ReplyResponse(reply), text |-> ex.text,
          calls |-> CallsMade(Prompt(ex.text), reply), reply |-> reply]

\* line 74 is reached and passed: the handler goes on to call the service
CallsCompletion(upload) ==
    LET ex == extract_text_from_pdf(upload) IN ~ex.raised /\ ex.text # <<>>

\* lines 111-113
root == JSONResponse([status |-> "XP B3 Parser ativo", docs |-> "/docs"], 200)

\* The routes the decorators register (lines 64 and 111).
Route(method, path) ==
    IF path = PREDICT THEN (IF method = "POST" THEN "predict" ELSE "405")
    ELSE IF path = ROOT THEN (IF method = "GET" THEN "root" ELSE "405")
    ELSE "404"

(***************************************************************************)
(* The state machine.                                                      *)
(***************************************************************************)
NoRequest == [path |-> <<>>, key |-> "unread", method |-> "unread"]

\* The record of an answered request: who answered it, what it read, what it
\* did (extracts: calls of extract_text_from_pdf; calls: completion calls).
Answered(r, handler, upload, out, extracts) ==
    [path |-> r.path, key |-> r.key, method |-> r.method,
     handler |-> handler, upload |-> upload, text |-> out.text,
     extracts |-> extracts, calls |-> out.calls, reply |-> out.reply,
     resp |-> out.resp]

Untouched(resp) == [resp |-> resp, text |-> <<>>, calls |-> <<>>, reply |-> NoReply]

NoLast == Answered(NoRequest, "none", NoUpload, Untouched(NoResponse), 0)

\* Module import: lines 13-19.  The process only starts with OPENAI_API_KEY set.
Init ==
    /\ API_KEY \in SecretValues
    /\ OPENAI_API_KEY = "sk-test"
    /\ client = [api_key |-> OPENAI_API_KEY]
    /\ pc = [s \in Slots |-> "idle"]
    /\ req = [s \in Slots |-> NoRequest]
    /\ tmpfiles = 0
    /\ extractFailed = FALSE
    /\ last = NoLast

\* A request arrives on a free connection.
Arrive(s) ==
    /\ pc[s] = "idle"
    /\ \E path \in Paths :
         req' = [req EXCEPT ![s] = [NoRequest EXCEPT !.path = path]]
    /\ pc' = [pc EXCEPT ![s] = "guard"]
    /\ last' = NoLast
    /\ UNCHANGED <<config, tmpfiles, extractFailed>>

\* api_key_guard, lines 41-46, up to `await call_next(request)`.
Guard(s) ==
    /\ pc[s] = "guard"
    /\ \E key \in HeaderValues :
         LET r == [req[s] EXCEPT !.key = key] IN
         IF IsProtected(r.path) /\ ~Authorized(key, API_KEY)
         THEN /\ last' = Answered(r, "guard", NoUpload, Untouched(Unauthorized), 0)
              /\ pc' = [pc EXCEPT ![s] = "idle"]
              /\ req' = [req EXCEPT ![s] = NoRequest]
         ELSE /\ pc' = [pc EXCEPT ![s] = "route"]
              /\ req' = [req EXCEPT ![s] = r]
              /\ last' = NoLast
    /\ UNCHANGED <<config, tmpfiles, extractFailed>>

\* call_next: the router picks the handler.  root (lines 111-113) has no
\* suspension point and answers at once; predict runs to `await file.read()`.
Dispatch(s) ==
    /\ pc[s] = "route"
    /\ \E method \in Methods :
         LET r == [req[s] EXCEPT !.method = method]
             h == Route(method, r.path) IN
         IF h = "predict"
         THEN /\ pc' = [pc EXCEPT ![s] = "read"]
              /\ req' = [req EXCEPT ![s] = r]
              /\ last' = NoLast
         ELSE /\ last' = Answered(r, h, NoUpload,
                                  Untouched(CASE h = "root" -> root
                                              [] h = "405" -> MethodNotAllowed
                                              [] h = "404" -> NotFound), 0)
              /\ pc' = [pc EXCEPT ![s] = "idle"]
              /\ req' = [req EXCEPT ![s] = NoRequest]
    /\ UNCHANGED <<config, tmpfiles, extractFailed>>

\* predict, lines 71-106: file.read() returns and the handler runs to its
\* return without yielding.
Predict(s) ==
    /\ pc[s] = "read"
    /\ tmpfiles < MaxTmpFiles
    /\ \E upload \in Uploads :
       \E reply \in (IF CallsCompletion(upload) THEN Replies ELSE {NoReply}) :
         LET out == predict(upload, reply) IN
         /\ last' = Answered(req[s], "predict", upload, out, 1)
         /\ client' = (IF out.calls = <<>> THEN client
                       ELSE ClientAfterCall(client, out.calls[1]))
         /\ extractFailed' = (extractFailed \/ ~upload.valid)
    /\ tmpfiles' = TempFilesAfterExtract(tmpfiles)
    /\ pc' = [pc EXCEPT ![s] = "idle"]
    /\ req' = [req EXCEPT ![s] = NoRequest]
    /\ UNCHANGED <<API_KEY, OPENAI_API_KEY>>

Next == \E s \in Slots : Arrive(s) \/ Guard(s) \/ Dispatch(s) \/ Predict(s)

Spec == Init /\ [][Next]_vars

(***************************************************************************)
(* What a request is expected to get, stated from its own fields and the   *)
(* configured secret alone, without the operators of the handlers above.   *)
(***************************************************************************)
Min(a, b) == IF a < b THEN a ELSE b

HasAnswer == last.handler # "none"

\* no page holds a character that is not whitespace
NoVisibleText(pages) ==
    \A i \in 1..Len(pages) :
        \A j \in 1..Len(pages[i].chars) :
            pages[i].isText => pages[i].chars[j] \in Whitespace

ExpectedFromPredict(upload, reply) ==
    IF ~upload.valid
    THEN [status |-> 200, body |-> [error |-> upload.err]]
    ELSE IF NoVisibleText(upload.pages)
    THEN [status |-> 200, body |-> [error |-> "Nenhum texto encontrado no PDF."]]
    ELSE IF reply.raised
    THEN [status |-> 200, body |-> [error |-> reply.msg]]
    ELSE IF Len(reply.choices) = 0
    THEN [status |-> 200, body |-> [error |-> "list index out of range"]]
    ELSE [status |-> 200, body |-> [resultado |-> Head(reply.choices)]]

Expected(a, secret) ==
    LET underPredict == /\ Len(a.path) >= Len(PREDICT)
                        /\ \A i \in 1..Len(PREDICT) : a.path[i] = PREDICT[i]
        keyMatches == secret \notin {None, ""} /\ a.key = secret
    IN  IF underPredict /\ ~keyMatches
        THEN [status |-> 401, body |-> [detail |-> "Unauthorized"]]
        ELSE IF a.path = ROOT /\ a.method = "GET"
        THEN [status |-> 200,
              body |-> [status |-> "XP B3 Parser ativo", docs |-> "/docs"]]
        ELSE IF a.path = PREDICT /\ a.method = "POST"
        THEN ExpectedFromPredict(a.upload, a.reply)
        ELSE IF a.path \in {ROOT, PREDICT}
        THEN [status |-> 405, body |-> [detail |-> "Method Not Allowed"]]
        ELSE [status |-> 404, body |-> [detail |-> "Not Found"]]

\* sub occurs in s as a contiguous run
Contains(s, sub) ==
    \E i \in 0..(Len(s) - Len(sub)) : SubSeq(s, i + 1, i + Len(sub)) = sub

FirstChars(s, n) == [i \in 1..Min(n, Len(s)) |-> s[i]]

UserPrompt(call) == call.messages[2].content

\* a request to the route POST /predict; a method the router never got to
\* read ("unread": the guard answered) stands for either method
ToPredict == HasAnswer /\ last.path = PREDICT /\ last.method # "GET"

\* the request reached the extraction/model pipeline
ReachedPipeline == last.handler = "predict" /\ last.extracts > 0

(***************************************************************************)
(* C1.  A request to POST /predict reaches the extraction/model pipeline   *)
(* if and only if the secret API_KEY is set, non-empty, and equal to the   *)
(* X-API-Key header; in every other case the answer is 401                 *)
(* {"detail": "Unauthorized"} and neither extract_text_from_pdf nor the    *)
(* completion call is invoked for it.                                      *)
(***************************************************************************)
C1_GuardGatesPredict ==
    ToPredict =>
        /\ ReachedPipeline <=> (API_KEY \notin {None, ""} /\ last.key = API_KEY)
        /\ ~ReachedPipeline =>
              /\ last.resp = [status |-> 401, body |-> [detail |-> "Unauthorized"]]
              /\ last.extracts = 0
              /\ last.calls = <<>>

\* secret unset and header absent: rejected, nothing invoked
C1_Witness ==
    /\ ToPredict
    /\ API_KEY = None
    /\ last.key = None
    /\ last.resp.status = 401

(***************************************************************************)
(* C2.  As claimed: for an authorized /predict request with non-empty      *)
(* extracted text exactly one completion call is made (gpt-4o-mini,        *)
(* temperature 0, a system message and a user prompt that contains the     *)
(* extracted text), and when the call returns a first choice the body is   *)
(* {"resultado": <that choice's text>} unmodified.                         *)
(***************************************************************************)
C2_CallShape(call) ==
    /\ call.model = "gpt-4o-mini"
    /\ call.temperature = 0
    /\ Len(call.messages) = 2
    /\ call.messages[1].role = "system"
    /\ call.messages[2].role = "user"

C2_Passthrough ==
    (~last.reply.raised /\ last.reply.choices # <<>>) =>
        last.resp = [status |-> 200, body |-> [resultado |-> last.reply.choices[1]]]

C2_PromptContainsWholeText ==
    (ReachedPipeline /\ last.text # <<>>) =>
        /\ Len(last.calls) = 1
        /\ C2_CallShape(last.calls[1])
        /\ Contains(UserPrompt(last.calls[1]), last.text)
        /\ C2_Passthrough

(***************************************************************************)
(* C2 as amended: the same, with the user prompt containing the first      *)
(* TextLimit (6000) characters of the extracted text, which is the whole   *)
(* text when it is no longer than that.                                    *)
(***************************************************************************)
C2_PromptContainsTextPrefix ==
    (ReachedPipeline /\ last.text # <<>>) =>
        /\ Len(last.calls) = 1
        /\ C2_CallShape(last.calls[1])
        /\ Contains(UserPrompt(last.calls[1]), FirstChars(last.text, TextLimit))
        /\ C2_Passthrough

\* a long text, a reply with two choices, the first one returned
C2_Witness ==
    /\ ReachedPipeline
    /\ Len(last.text) > TextLimit
    /\ Len(last.reply.choices) = 2
    /\ last.resp.body = [resultado |-> "free text"]

(***************************************************************************)
(* C3.  An authorized /predict request whose PDF yields no extractable     *)
(* text (every page gives nothing, or only whitespace) is answered exactly *)
(* {"error": "Nenhum texto encontrado no PDF."} and no completion call is  *)
(* made for it.                                                            *)
(***************************************************************************)
C3_EmptyTextShortCircuits ==
    (ReachedPipeline /\ last.upload.valid /\ NoVisibleText(last.upload.pages)) =>
        /\ last.resp = [status |-> 200,
                        body |-> [error |-> "Nenhum texto encontrado no PDF."]]
        /\ last.calls = <<>>

\* a page without text followed by a page of whitespace
C3_Witness ==
    /\ ReachedPipeline
    /\ last.upload = Pdf(<<PageNone, PageStr(<<" ">>)>>)
    /\ "error" \in DOMAIN last.resp.body

(***************************************************************************)
(* C4.  When the PDF reader raises on the upload, the answer is            *)
(* {"error": <exception message>} with status 200 and no model call; the   *)
(* process keeps accepting requests, and every request answered after such *)
(* a failure gets the answer its own fields determine.                     *)
(***************************************************************************)
C4_ReaderFailureIsContained ==
    /\ (ReachedPipeline /\ ~last.upload.valid) =>
          /\ last.resp = [status |-> 200, body |-> [error |-> last.upload.err]]
          /\ last.calls = <<>>
    /\ (extractFailed /\ HasAnswer) => last.resp = Expected(last, API_KEY)
    /\ extractFailed => \A s \in Slots : pc[s] = "idle" => ENABLED Arrive(s)

\* a request served with a result after an earlier one failed in the reader
C4_Witness ==
    /\ extractFailed
    /\ ReachedPipeline
    /\ last.upload.valid
    /\ "resultado" \in DOMAIN last.resp.body

(***************************************************************************)
(* C5.  As claimed: once no request is in flight, no temporary file        *)
(* holding upload bytes is left over.                                      *)
(***************************************************************************)
C5_NoTempFileLeft ==
    (\A s \in Slots : pc[s] = "idle") => tmpfiles = 0

(***************************************************************************)
(* C6.  As claimed: a request whose path is not /predict is never answered *)
(* 401 by the gatekeeper, whatever its X-API-Key header and the secret.    *)
(***************************************************************************)
C6_OtherPathsBypassGuard ==
    (HasAnswer /\ last.path # PREDICT) =>
        /\ last.resp.status # 401
        /\ last.handler # "guard"

(***************************************************************************)
(* C7.  The prompt sent to the completion service holds, between the fixed *)
(* template text before and after it, exactly the first TextLimit (6000)   *)
(* characters of the extracted text: nothing from index TextLimit on, and  *)
(* the whole text when it is no longer than TextLimit.                     *)
(***************************************************************************)
C7_PromptHoldsTruncatedText ==
    (ReachedPipeline /\ last.calls # <<>>) =>
        LET prompt == UserPrompt(last.calls[1])
            embedded == SubSeq(prompt, Len(PromptPrefix) + 1,
                               Len(prompt) - Len(PromptSuffix))
        IN  /\ Len(embedded) = Min(Len(last.text), TextLimit)
            /\ \A i \in 1..Len(embedded) : embedded[i] = last.text[i]
            /\ Len(last.text) <= TextLimit => embedded = last.text

\* a text longer than the limit went into a prompt
C7_Witness ==
    /\ ReachedPipeline
    /\ last.calls # <<>>
    /\ Len(last.text) > TextLimit

(***************************************************************************)
(* C8.  The /predict endpoint makes at most one completion call for a      *)
(* request and does not retry: a call that raises, or a reply without a    *)
(* first choice, is answered {"error": <message>} with status 200, and     *)
(* every answer of the endpoint has exactly the key resultado or exactly   *)
(* the key error.                                                          *)
(***************************************************************************)
C8_OneCallNoRetry ==
    ReachedPipeline =>
        /\ Len(last.calls) <= 1
        /\ last.resp.status = 200
        /\ DOMAIN last.resp.body \in {{"resultado"}, {"error"}}
        /\ (last.calls # <<>> /\ last.reply.raised) =>
              last.resp.body = [error |-> last.reply.msg]
        /\ (last.calls # <<>> /\ ~last.reply.raised /\ last.reply.choices = <<>>) =>
              DOMAIN last.resp.body = {"error"}

\* the one call failed and was reported in-band
C8_Witness ==
    /\ ReachedPipeline
    /\ last.reply.raised
    /\ Len(last.calls) = 1
    /\ last.resp = [status |-> 200, body |-> [error |-> "Connection error."]]

(***************************************************************************)
(* C9.  Requests are independent: in every step, whatever else is in       *)
(* flight and whatever was answered before, the configuration and the      *)
(* shared client handle stay as they are, only the stepping request's own  *)
(* connection changes, and a request answered by the step gets the answer  *)
(* that its own path, header, method, upload and model reply determine     *)
(* together with the configured secret.                                    *)
(***************************************************************************)
C9_StepIsIndependent ==
    /\ config' = config
    /\ \A s, t \in Slots :
          (s # t /\ <<pc[s], req[s]>> # <<pc'[s], req'[s]>>) =>
              <<pc[t], req[t]>> = <<pc'[t], req'[t]>>
    /\ last'.handler # "none" => last'.resp = Expected(last', API_KEY)

C9_RequestsIndependent == [][C9_StepIsIndependent]_vars

\* a request answered by predict while another sits inside predict
C9_Witness ==
    /\ ReachedPipeline
    /\ last.calls # <<>>
    /\ \E s \in Slots : pc[s] = "read"

(***************************************************************************)
(* C10.  GET / is always answered {"status": "XP B3 Parser ativo",         *)
(* "docs": "/docs"}, whether the X-API-Key header is absent, wrong or      *)
(* right and whether or not the secret is set, and it makes no extraction  *)
(* or model call.                                                          *)
(***************************************************************************)
C10_RootIgnoresAuth ==
    (HasAnswer /\ last.path = ROOT /\ last.method # "POST") =>
        /\ last.resp = [status |-> 200,
                        body |-> [status |-> "XP B3 Parser ativo", docs |-> "/docs"]]
        /\ last.extracts = 0
        /\ last.calls = <<>>

\* GET / with a wrong key while a secret is set
C10_Witness ==
    /\ HasAnswer
    /\ last.path = ROOT
    /\ last.method = "GET"
    /\ API_KEY = "k1"
    /\ last.key = "k2"

====
